---------------------------- MODULE Spec2Model ----------------------------
(***************************************************************************)
(* Model of the dataset loaders of lcml/data/loading/__init__.py           *)
(* (loadOgle3Dataset, legacyLoadOgle3Dataset, loadMachoDataset,            *)
(* loadK2Dataset) and of the cleaner of lcml/processing/preprocess.py      *)
(* (preprocessLc, cleanDataset).                                           *)
(*                                                                         *)
(* One call of one function is one behaviour: Init fixes the function      *)
(* called and its inputs (file contents, limit), the actions are the       *)
(* function's steps (one loop iteration each), and `result` records how    *)
(* the call ended: "returned" or the kind of the exception raised.         *)
(***************************************************************************)
EXTENDS Integers, Sequences, FiniteSets, TLC

VARIABLES
    fn,            \* the function called
    pc,            \* position inside the call
    result,        \* "pending" | "returned" | the exception raised
    limit,         \* the limit argument
    file,          \* the input file(s): what the loader reads from disk
    labels, times, magnitudes, errors,   \* the four output lists
    data,          \* the local `data` of the loaders
    i,             \* the loop index of the function called
    \* locals of loadOgle3Dataset
    uidCol, selectedUids, curLabel, curUid, curTimes, curMags, curErrors,
    \* local of legacyLoadOgle3Dataset
    paths,
    \* local of loadMachoDataset
    choice,
    \* local of loadK2Dataset
    goodRows,
    \* cleanDataset: arguments and locals
    nLcs, remove, cleaned, shortIssueCount, bogusIssueCount, outlierIssueCount,
    lcArg, noiseOut, lc, issue

callVars  == <<fn, pc, result, limit, file, data, i>>
outVars   == <<labels, times, magnitudes, errors>>
ogleVars  == <<uidCol, selectedUids, curLabel, curUid, curTimes, curMags, curErrors>>
cleanVars == <<nLcs, remove, cleaned, shortIssueCount, bogusIssueCount,
               outlierIssueCount, lcArg, noiseOut, lc, issue>>
vars      == <<callVars, outVars, ogleVars, paths, choice, goodRows, cleanVars>>

\* ------------------------------------------------------------------ bounds
MaxRows  == 4      \* data rows of an OGLE3 file
MaxLimit == 3      \* the limit argument ranges over 0..MaxLimit

\* ----------------------------------------------------------------- helpers
Range(s) == { s[k] : k \in DOMAIN s }

\* set(...) of all k-element subsets of S: np.random.choice(S, k, replace=False)
\* as a set
Subsets(S, k) == { T \in SUBSET S : Cardinality(T) = k }

\* float(x) / np.float32(x) of a decimal string: the number it denotes
Float(s) == CHOOSE n \in 0..99 : ToString(n) = s

\* str.lower() on the category and name strings of the model
Lower(s) ==
    CASE s = "RR"  -> "rr"
      [] s = "CEP" -> "cep"
      [] s = "LMC" -> "lmc"
      [] s = "I"   -> "i"
      [] s = "A"   -> "a"
      [] OTHER     -> s

\* int(x) of the id column
IntOf(s) == CHOOSE n \in 0..9 : ToString(n) = s

\* --------------------------------------------------------- loadOgle3Dataset
\* (category, id) of the rows an input file is drawn from
Ogle3RowKinds == { <<"RR", "1">>, <<"rr", "1">>, <<"CEP", "1">>, <<"CEP", "2">> }

\* row k of an OGLE3 file: 0=HJD, 1=MAGNITUDE, 2=ERROR, 3=FIELD, 4=LABEL,
\* 5=ID, 6=MAGNITUDE_BAND, all strings; the numeric cells name the row
Ogle3Row(k, kind) ==
    [hjd |-> ToString(k), mag |-> ToString(k + 10), err |-> ToString(k + 20),
     field |-> "LMC", label |-> kind[1], id |-> kind[2], band |-> "I"]

Ogle3Files ==
    UNION { { [k \in 1..n |-> Ogle3Row(k, kinds[k])] : kinds \in [1..n -> Ogle3RowKinds] }
            : n \in 1..MaxRows }

_ogle3Uid(r) == <<Lower(r.field), Lower(r.label), IntOf(r.id), Lower(r.band)>>

NoUid == <<>>

\* FinishLc without errors.append(curErrors)
FinishLcDropErrors(out, lab, tm, mg, er) ==
    [labels |-> Append(out.labels, lab), times |-> Append(out.times, tm),
     magnitudes |-> Append(out.magnitudes, mg), errors |-> out.errors]

\* FinishLc inserting at the front of the lists
FinishLcPrepend(out, lab, tm, mg, er) ==
    [labels |-> <<lab>> \o out.labels, times |-> <<tm>> \o out.times,
     magnitudes |-> <<mg>> \o out.magnitudes, errors |-> <<er>> \o out.errors]

\* FinishLc extending the curve already flushed under the same label, if any
FinishLcMerge(out, lab, tm, mg, er) ==
    IF \E k \in 1..Len(out.labels) : out.labels[k] = lab
    THEN LET k == CHOOSE k \in 1..Len(out.labels) : out.labels[k] = lab
         IN  [labels |-> out.labels,
              times |-> [out.times EXCEPT ![k] = @ \o tm],
              magnitudes |-> [out.magnitudes EXCEPT ![k] = @ \o mg],
              errors |-> [out.errors EXCEPT ![k] = @ \o er]]
    ELSE [labels |-> Append(out.labels, lab), times |-> Append(out.times, tm),
          magnitudes |-> Append(out.magnitudes, mg), errors |-> Append(out.errors, er)]

\* lines 87-90: labels.append(curLabel); times.append(curTimes); ...
FinishLc(out, lab, tm, mg, er) ==
    [labels |-> Append(out.labels, lab), times |-> Append(out.times, tm),
     magnitudes |-> Append(out.magnitudes, mg), errors |-> Append(out.errors, er)]

Out == [labels |-> labels, times |-> times, magnitudes |-> magnitudes, errors |-> errors]

SetOut(o) ==
    /\ labels' = o.labels
    /\ times' = o.times
    /\ magnitudes' = o.magnitudes
    /\ errors' = o.errors

Ogle3Idle ==
    /\ uidCol = <<>> /\ selectedUids = {}
    /\ curLabel = "" /\ curUid = NoUid
    /\ curTimes = <<>> /\ curMags = <<>> /\ curErrors = <<>>

OthersIdle == paths = <<>> /\ choice = {} /\ goodRows = <<>>

None == "None"

CleanIdle ==
    /\ nLcs = 0 /\ remove = {} /\ cleaned = <<>>
    /\ shortIssueCount = 0 /\ bogusIssueCount = 0 /\ outlierIssueCount = 0
    /\ lcArg = None /\ noiseOut = None /\ lc = None /\ issue = None

OutEmpty == labels = <<>> /\ times = <<>> /\ magnitudes = <<>> /\ errors = <<>>

InitOgle3 ==
    /\ fn = "loadOgle3Dataset" /\ pc = "start" /\ result = "pending"
    /\ limit \in 0..MaxLimit
    /\ file \in Ogle3Files
    /\ data = <<>> /\ i = 0
    /\ OutEmpty /\ Ogle3Idle /\ OthersIdle /\ CleanIdle

\* an exception leaves the call
Raise(kind) ==
    /\ pc' = "done"
    /\ result' = kind

Return ==
    /\ pc' = "done"
    /\ result' = "returned"

notOgle  == <<paths, choice, goodRows, cleanVars>>

\* lines 66-76. np.loadtxt squeezes a file of one data row to a 1-D array of
\* strings, on which r[3]..r[6] index characters and data[0, 4] raises
\* IndexError; np.random.choice raises ValueError when limit exceeds the
\* number of unique uids.
Ogle3Start ==
    /\ fn = "loadOgle3Dataset" /\ pc = "start"
    /\ LET col  == [k \in 1..Len(file) |-> _ogle3Uid(file[k])]
           uids == Range(col)
       IN  IF Len(file) = 1
           THEN /\ Raise("IndexError")
                /\ UNCHANGED <<fn, limit, file, data, i, outVars, ogleVars>>
           ELSE IF limit > Cardinality(uids)
           THEN /\ Raise("ValueError")
                /\ UNCHANGED <<fn, limit, file, data, i, outVars, ogleVars>>
           ELSE /\ data' = file
                /\ uidCol' = col
                /\ selectedUids' \in Subsets(uids, limit)
                /\ curLabel' = Lower(file[1].label)
                /\ curUid' = col[1]
                /\ curTimes' = <<>> /\ curMags' = <<>> /\ curErrors' = <<>>
                /\ i' = 1
                /\ pc' = "scan"
                /\ UNCHANGED <<fn, result, limit, file, outVars>>
    /\ UNCHANGED notOgle

\* Ogle3Scan finishing the current LC whether or not its uid is selected
Ogle3ScanFlushAlways ==
    /\ fn = "loadOgle3Dataset" /\ pc = "scan" /\ i <= Len(data)
    /\ LET row == data[i] IN
       IF uidCol[i] = curUid
       THEN /\ IF curUid \in selectedUids
               THEN /\ curTimes' = Append(curTimes, Float(row.hjd))
                    /\ curMags' = Append(curMags, Float(row.mag))
                    /\ curErrors' = Append(curErrors, Float(row.err))
               ELSE UNCHANGED <<curTimes, curMags, curErrors>>
            /\ UNCHANGED <<curUid, curLabel, outVars>>
       ELSE /\ SetOut(FinishLc(Out, curLabel, curTimes, curMags, curErrors))
            /\ curUid' = uidCol[i]
            /\ IF uidCol[i] \in selectedUids
               THEN /\ curLabel' = Lower(row.label)
                    /\ curTimes' = <<Float(row.hjd)>>
                    /\ curMags' = <<Float(row.mag)>>
                    /\ curErrors' = <<Float(row.err)>>
               ELSE UNCHANGED <<curLabel, curTimes, curMags, curErrors>>
    /\ i' = i + 1
    /\ UNCHANGED <<fn, pc, result, limit, file, data, uidCol, selectedUids>>
    /\ UNCHANGED notOgle

\* lines 77-99: one iteration of the row scan
Ogle3Scan ==
    /\ fn = "loadOgle3Dataset" /\ pc = "scan" /\ i <= Len(data)
    /\ LET row == data[i] IN
       IF uidCol[i] = curUid
       THEN /\ IF curUid \in selectedUids
               THEN /\ curTimes' = Append(curTimes, Float(row.hjd))
                    /\ curMags' = Append(curMags, Float(row.mag))
                    /\ curErrors' = Append(curErrors, Float(row.err))
               ELSE UNCHANGED <<curTimes, curMags, curErrors>>
            /\ UNCHANGED <<curUid, curLabel, outVars>>
       ELSE /\ IF curUid \in selectedUids
               THEN SetOut(FinishLc(Out, curLabel, curTimes, curMags, curErrors))
               ELSE UNCHANGED outVars
            /\ curUid' = uidCol[i]
            /\ IF uidCol[i] \in selectedUids
               THEN /\ curLabel' = Lower(row.label)
                    /\ curTimes' = <<Float(row.hjd)>>
                    /\ curMags' = <<Float(row.mag)>>
                    /\ curErrors' = <<Float(row.err)>>
               ELSE UNCHANGED <<curLabel, curTimes, curMags, curErrors>>
    /\ i' = i + 1
    /\ UNCHANGED <<fn, pc, result, limit, file, data, uidCol, selectedUids>>
    /\ UNCHANGED notOgle

\* Ogle3Return with a flush of the group in progress after the loop
Ogle3ReturnWithFlush ==
    /\ fn = "loadOgle3Dataset" /\ pc = "scan" /\ i > Len(data)
    /\ Return
    /\ IF curUid \in selectedUids
       THEN SetOut(FinishLc(Out, curLabel, curTimes, curMags, curErrors))
       ELSE UNCHANGED outVars
    /\ UNCHANGED <<fn, limit, file, data, i, ogleVars, notOgle>>

\* line 101: return labels, times, magnitudes, errors
Ogle3Return ==
    /\ fn = "loadOgle3Dataset" /\ pc = "scan" /\ i > Len(data)
    /\ Return
    /\ UNCHANGED <<fn, limit, file, data, i, outVars, ogleVars, notOgle>>

NextOgle3 == Ogle3Start \/ Ogle3Scan \/ Ogle3Return

SpecOgle3 == InitOgle3 /\ [][NextOgle3]_vars

\* --------------------------------------------------- legacyLoadOgle3Dataset
MaxFiles  == 2     \* files in the data directory
MaxSegs   == 3     \* hyphen-delimited segments of a file name
MaxLcRows == 2     \* rows of a legacy .dat file

\* injective sequences of length k over S: np.random.choice(n, k,
\* replace=False) as the array it returns
Samples(S, k) ==
    { s \in [1..k -> S] : \A a, b \in 1..k : a # b => s[a] # s[b] }

\* strings the code splits are sequences of one-character strings
RECURSIVE Split(_, _)
Split(s, sep) ==
    IF \A k \in DOMAIN s : s[k] # sep
    THEN <<s>>
    ELSE LET k == CHOOSE k \in DOMAIN s : s[k] = sep /\ \A j \in 1..(k - 1) : s[j] # sep
         IN  <<SubSeq(s, 1, k - 1)>> \o Split(SubSeq(s, k + 1, Len(s)), sep)

RECURSIVE Join(_, _)
Join(segs, sep) ==
    IF Len(segs) = 1 THEN segs[1] ELSE segs[1] \o <<sep>> \o Join(Tail(segs), sep)

LowerStr(s) == [k \in DOMAIN s |-> Lower(s[k])]

\* s[-1]
Last(s) == s[Len(s)]

\* the directory of the call; its name holds hyphens of its own
DataDir == <<"/", "A", "-", "b", "-", "A", "/">>

\* the values of segment k of a file name: the third is the category
NameSegs(k) == IF k = 3 THEN { <<"A", "b">>, <<"b">> } ELSE { <<"A">> }

\* absoluteFilePaths(dataDir, ext="dat"): every listing of up to MaxFiles
\* distinct files of DataDir, in any order
LegacyNames ==
    UNION { { Join(segs, "-") : segs \in { t \in [1..n -> NameSegs(1) \cup NameSegs(3)] :
                                             \A k \in 1..n : t[k] \in NameSegs(k) } }
            : n \in 1..MaxSegs }

LegacyListings ==
    UNION { { [k \in 1..n |-> DataDir \o s[k]] : s \in Samples(LegacyNames, n) }
            : n \in 0..MaxFiles }

\* np.loadtxt(f) of a file of n rows of 3 columns: a 1-D array for one row
LoadTxt(n) ==
    LET rows == [k \in 1..n |-> <<k, k + 10, k + 20>>]
    IN  IF n = 1 THEN [ndim |-> 1, a |-> rows[1]] ELSE [ndim |-> 2, a |-> rows]

\* if lc.ndim == 1: lc.shape = 1, 3
Reshape13(l) == IF l.ndim = 1 THEN [ndim |-> 2, a |-> <<l.a>>] ELSE l

\* lc[:, c]
Column(l, c) == [k \in 1..Len(l.a) |-> l.a[k][c + 1]]

\* FileName without the split on "/"
FileNameNoSplit(f) == f

\* fileName = f.split("/")[-1]
FileName(f) == Last(Split(f, "/"))

\* Category without .lower()
CategoryNotLowered(fnSplits) == fnSplits[3]

\* category = fnSplits[2].lower()
Category(fnSplits) == LowerStr(fnSplits[3])

InitLegacy ==
    /\ fn = "legacyLoadOgle3Dataset" /\ pc = "start" /\ result = "pending"
    /\ limit \in 0..MaxLimit
    /\ file \in LegacyListings
    /\ data = <<>> /\ i = 0
    /\ OutEmpty /\ Ogle3Idle /\ OthersIdle /\ CleanIdle

notLegacy == <<data, ogleVars, choice, goodRows, cleanVars>>

\* lines 114-120
LegacyStart ==
    /\ fn = "legacyLoadOgle3Dataset" /\ pc = "start"
    /\ IF file = <<>> \/ limit > Len(file)
       THEN /\ Raise("ValueError")
            /\ UNCHANGED <<paths, i>>
       ELSE /\ \E selectedIdxs \in Samples(0..(Len(file) - 1), limit) :
                 paths' = [k \in 1..limit |-> file[selectedIdxs[k] + 1]]
            /\ i' = 1
            /\ pc' = "scan"
            /\ UNCHANGED result
    /\ UNCHANGED <<fn, limit, file, outVars, notLegacy>>

\* lines 122-138: one iteration over the selected paths; the file's content
\* is read here
LegacyFile ==
    /\ fn = "legacyLoadOgle3Dataset" /\ pc = "scan" /\ i <= Len(paths)
    /\ LET fileName == FileName(paths[i])
           fnSplits == Split(fileName, "-")
       IN  IF Len(fnSplits) > 2
           THEN \E n \in 1..MaxLcRows :
                  LET l == Reshape13(LoadTxt(n)) IN
                  /\ labels' = Append(labels, Category(fnSplits))
                  /\ times' = Append(times, Column(l, 0))
                  /\ magnitudes' = Append(magnitudes, Column(l, 1))
                  /\ errors' = Append(errors, Column(l, 2))
           ELSE UNCHANGED outVars
    /\ i' = i + 1
    /\ UNCHANGED <<fn, pc, result, limit, file, paths, notLegacy>>

\* lines 140-143
LegacyReturn ==
    /\ fn = "legacyLoadOgle3Dataset" /\ pc = "scan" /\ i > Len(paths)
    /\ IF Len(labels) = Len(times) /\ Len(labels) = Len(magnitudes)
          /\ Len(labels) = Len(errors)
       THEN Return
       ELSE Raise("AssertionError")
    /\ UNCHANGED <<fn, limit, file, i, outVars, paths, notLegacy>>

NextLegacy == LegacyStart \/ LegacyFile \/ LegacyReturn

SpecLegacy == InitLegacy /\ [][NextLegacy]_vars

\* --------------------------------------------------------- loadMachoDataset
MaxMachoRows == 3  \* data rows of a MACHO file

\* s[k] with the code's 0-based index
At(s, k) == s[k + 1]

\* data row k of a MACHO file: 0 classification, 1 field_id, 2 tile_id,
\* 3 sequence, 4 date_observed, 5 red_magnitude, 6 red_error,
\* 7 blue_magnitude, 8 blue_error; the numeric cells name the row and column
MachoRow(k, cls) ==
    <<cls, "0", "0", "0", ToString(k), ToString(10 + k), ToString(20 + k),
      ToString(30 + k), ToString(40 + k)>>

MachoHeader ==
    <<"classification", "field_id", "tile_id", "sequence", "date_observed",
      "red_magnitude", "red_error", "blue_magnitude", "blue_error">>

\* a file is its lines: the header row, then the data rows
MachoFiles ==
    UNION { { <<MachoHeader>> \o [k \in 1..n |-> MachoRow(k, cls[k])]
              : cls \in [1..n -> {"1", "2"}] } : n \in 0..MaxMachoRows }

\* lines 16-21: the number of lines of the file, its header included
fileLength(f) == Len(f)

\* [np.float32(x) for i, x in enumerate(row) if i in columns]
RECURSIVE Pick(_, _, _)
Pick(row, columns, c) ==
    IF c >= Len(row) THEN <<>>
    ELSE (IF c \in columns THEN <<Float(At(row, c))>> ELSE <<>>)
         \o Pick(row, columns, c + 1)

\* np.tile(a, 2)
Tile2(a) == a \o a

ColumnOf(rows, c) == [k \in 1..Len(rows) |-> At(rows[k], c)]

InitMacho ==
    /\ fn = "loadMachoDataset" /\ pc = "start" /\ result = "pending"
    /\ limit \in 0..MaxLimit
    /\ file \in MachoFiles
    /\ data = <<>> /\ i = 0
    /\ OutEmpty /\ Ogle3Idle /\ OthersIdle /\ CleanIdle

notMacho == <<ogleVars, paths, goodRows, cleanVars>>

\* lines 176-183: the sample is drawn from range(fileLength(dataPath))
MachoStart ==
    /\ fn = "loadMachoDataset" /\ pc = "start"
    /\ IF limit > fileLength(file)
       THEN /\ Raise("ValueError")
            /\ UNCHANGED <<choice, data, i>>
       ELSE /\ choice' \in Subsets(0..(fileLength(file) - 1), limit)
            /\ data' = <<>>
            /\ i' = 0
            /\ pc' = "scan"
            /\ UNCHANGED result
    /\ UNCHANGED <<fn, limit, file, outVars, notMacho>>

\* lines 185-189: one row of the reader, which starts after the header
MachoScan ==
    /\ fn = "loadMachoDataset" /\ pc = "scan" /\ i < Len(Tail(file))
    /\ LET row == At(Tail(file), i) IN
       data' = IF i \in choice
               THEN Append(data, Pick(row, {0, 4, 5, 6, 7, 8}, 0))
               ELSE data
    /\ i' = i + 1
    /\ UNCHANGED <<fn, pc, result, limit, file, choice, outVars, notMacho>>

\* lines 196-205
MachoReturn ==
    /\ fn = "loadMachoDataset" /\ pc = "scan" /\ i >= Len(Tail(file))
    /\ LET lab == Tile2(ColumnOf(data, 0))
           tm  == Tile2(ColumnOf(data, 1))
           mg  == ColumnOf(data, 2) \o ColumnOf(data, 3)
           er  == ColumnOf(data, 4) \o ColumnOf(data, 5)
       IN  IF Len(lab) = Len(tm) /\ Len(tm) = Len(mg) /\ Len(tm) = Len(er)
           THEN /\ labels' = lab /\ times' = tm /\ magnitudes' = mg /\ errors' = er
                /\ Return
           ELSE /\ Raise("AssertionError")
                /\ UNCHANGED outVars
    /\ UNCHANGED <<fn, limit, file, data, i, choice, notMacho>>

NextMacho == MachoStart \/ MachoScan \/ MachoReturn

SpecMacho == InitMacho /\ [][NextMacho]_vars

\* ------------------------------------------------------------ loadK2Dataset
MaxK2Rows == 3     \* data rows of a K2 file

\* data row k of a K2 file: column 0 TIME, 7 PDCSAP_FLUX, 8 PDCSAP_FLUX_ERR,
\* 9 SAP_QUALITY
K2Row(k, flag) ==
    <<ToString(k), "0", "0", "0", "0", "0", "0", ToString(10 + k),
      ToString(20 + k), flag>>

K2Files ==
    UNION { { [k \in 1..n |-> K2Row(k, flag[k])] : flag \in [1..n -> {"0", "1"}] }
            : n \in 0..MaxK2Rows }

\* np.genfromtxt(dataPath, delimiter=",", dtype=float, skip_header=1)
GenFromTxt(f) == [k \in 1..Len(f) |-> [c \in 1..Len(f[k]) |-> Float(f[k][c])]]

\* Where0 without the test of the flag
Where0All(flags, k) ==
    [j \in 1..(Len(flags) - k) |-> k + j - 1]

\* np.where(flags == 0)[0]: the 0-based indices of the rows with flag 0,
\* ascending
RECURSIVE Where0(_, _)
Where0(flags, k) ==
    IF k >= Len(flags) THEN <<>>
    ELSE (IF At(flags, k) = 0 THEN <<k>> ELSE <<>>) \o Where0(flags, k + 1)

InitK2 ==
    /\ fn = "loadK2Dataset" /\ pc = "start" /\ result = "pending"
    /\ limit \in 0..MaxLimit
    /\ file \in K2Files
    /\ data = <<>> /\ i = 0
    /\ OutEmpty /\ Ogle3Idle /\ OthersIdle /\ CleanIdle

notK2 == <<i, ogleVars, paths, choice, cleanVars>>

\* lines 237-243. np.genfromtxt gives a 1-D array for a file of fewer than
\* two data rows, on which data[:, 9] raises IndexError. np.random.choice(0, 0)
\* raises ValueError or returns an empty sample, depending on the numpy
\* release.
K2Start ==
    /\ fn = "loadK2Dataset" /\ pc = "start"
    /\ IF Len(file) < 2
       THEN /\ Raise("IndexError")
            /\ UNCHANGED <<data, goodRows>>
       ELSE LET d     == GenFromTxt(file)
                flags == ColumnOf(d, 9)
                good  == Where0(flags, 0)
            IN  IF limit > Len(good)
                THEN /\ Raise("ValueError")
                     /\ UNCHANGED <<data, goodRows>>
                ELSE \/ /\ \E sel \in Samples(0..(Len(good) - 1), limit) :
                             goodRows' = [k \in 1..limit |-> At(good, sel[k])]
                        /\ data' = d
                        /\ pc' = "gather"
                        /\ UNCHANGED result
                     \/ /\ Len(good) = 0
                        /\ Raise("ValueError")
                        /\ UNCHANGED <<data, goodRows>>
    /\ UNCHANGED <<fn, limit, file, outVars, notK2>>

\* lines 245-249
K2Return ==
    /\ fn = "loadK2Dataset" /\ pc = "gather"
    /\ labels' = <<>>
    /\ times' = [k \in 1..Len(goodRows) |-> At(At(data, goodRows[k]), 0)]
    /\ magnitudes' = [k \in 1..Len(goodRows) |-> At(At(data, goodRows[k]), 7)]
    /\ errors' = [k \in 1..Len(goodRows) |-> At(At(data, goodRows[k]), 8)]
    /\ Return
    /\ UNCHANGED <<fn, limit, file, data, goodRows, notK2>>

NextK2 == K2Start \/ K2Return

SpecK2 == InitK2 /\ [][NextK2]_vars

\* ------------------------------------------------ preprocessLc, cleanDataset
MaxLcs   == 2      \* light curves handed to cleanDataset
MaxLcLen == 2      \* points of a light curve handed to cleanDataset

\* lcml.utils.data_util.SUFFICIENT_LC_DATA, scaled down to the model's curves
SUFFICIENT_LC_DATA == 2

INSUFFICIENT_DATA_REASON == "insufficient at start"
BOGUS_DATA_REASON == "insufficient due to bogus data"
OUTLIERS_REASON == "insufficient due to statistical outliers"

\* (magnitude, error) of the points a light curve is drawn from; -99 is the
\* bogus marker
PointKinds == { <<5, 1>>, <<-99, 1>> }

\* the light curves of lcs: point k has time k
LcInputs ==
    UNION { { [label |-> "rr", times |-> [k \in 1..n |-> k],
               mags |-> [k \in 1..n |-> pts[k][1]],
               errs |-> [k \in 1..n |-> pts[k][2]]] : pts \in [1..n -> PointKinds] }
            : n \in 0..MaxLcLen }

\* the elements of s at the positions of K, in order
RECURSIVE KeepAt(_, _, _)
KeepAt(s, K, k) ==
    IF k > Len(s) THEN <<>>
    ELSE (IF k \in K THEN <<s[k]>> ELSE <<>>) \o KeepAt(s, K, k + 1)

\* lcml.utils.data_util.lcFilterBogus: drops the points whose magnitude or
\* error is one of `remove`
lcFilterBogus(timeData, magData, errorData, rem) ==
    LET K == { k \in 1..Len(timeData) : magData[k] \notin rem /\ errorData[k] \notin rem }
    IN  <<KeepAt(timeData, K, 1), KeepAt(magData, K, 1), KeepAt(errorData, K, 1)>>

\* feets.preprocess.remove_noise: an external routine; `keep` is the set of
\* positions it leaves in
remove_noise(tm, mag, err, keep) ==
    <<KeepAt(tm, keep, 1), KeepAt(mag, keep, 1), KeepAt(err, keep, 1)>>

\* preprocessLc without the length check after the bogus filter
preprocessLcLengthOnly(timeData, magData, errorData, rem, keep) ==
    LET f == lcFilterBogus(timeData, magData, errorData, rem)
        n == remove_noise(f[1], f[2], f[3], keep)
    IN  IF Len(timeData) < SUFFICIENT_LC_DATA
        THEN [lc |-> None, issue |-> INSUFFICIENT_DATA_REASON, noise |-> None,
              removedCounts |-> [bogusRemoved |-> 0, outlierRemoved |-> 0]]
        ELSE IF Len(n[1]) < SUFFICIENT_LC_DATA
        THEN [lc |-> None, issue |-> OUTLIERS_REASON, noise |-> n,
              removedCounts |-> [bogusRemoved |-> Len(timeData) - Len(f[1]),
                                 outlierRemoved |-> Len(f[1]) - Len(n[1])]]
        ELSE [lc |-> n, issue |-> None, noise |-> n,
              removedCounts |-> [bogusRemoved |-> Len(timeData) - Len(f[1]),
                                 outlierRemoved |-> Len(f[1]) - Len(n[1])]]

\* lines 34-62; `noise` is what remove_noise returned, None when not called
preprocessLc(timeData, magData, errorData, rem, keep) ==
    LET f == lcFilterBogus(timeData, magData, errorData, rem)
        n == remove_noise(f[1], f[2], f[3], keep)
    IN  IF Len(timeData) < SUFFICIENT_LC_DATA
        THEN [lc |-> None, issue |-> INSUFFICIENT_DATA_REASON, noise |-> None,
              removedCounts |-> [bogusRemoved |-> 0, outlierRemoved |-> 0]]
        ELSE IF Len(f[1]) < SUFFICIENT_LC_DATA
        THEN [lc |-> None, issue |-> BOGUS_DATA_REASON, noise |-> None,
              removedCounts |-> [bogusRemoved |-> Len(timeData) - Len(f[1]),
                                 outlierRemoved |-> 0]]
        ELSE IF Len(n[1]) < SUFFICIENT_LC_DATA
        THEN [lc |-> None, issue |-> OUTLIERS_REASON, noise |-> n,
              removedCounts |-> [bogusRemoved |-> Len(timeData) - Len(f[1]),
                                 outlierRemoved |-> Len(f[1]) - Len(n[1])]]
        ELSE [lc |-> n, issue |-> None, noise |-> n,
              removedCounts |-> [bogusRemoved |-> Len(timeData) - Len(f[1]),
                                 outlierRemoved |-> Len(f[1]) - Len(n[1])]]

InitClean ==
    /\ fn = "cleanDataset" /\ pc = "loop" /\ result = "pending"
    /\ limit = 0 /\ file = <<>> /\ data = <<>> /\ i = 0
    /\ OutEmpty /\ Ogle3Idle /\ OthersIdle
    /\ nLcs \in 0..MaxLcs
    /\ remove \in { {}, {-99} }
    /\ cleaned = <<>>
    /\ shortIssueCount = 0 /\ bogusIssueCount = 0 /\ outlierIssueCount = 0
    /\ lcArg = None /\ noiseOut = None /\ lc = None /\ issue = None

notClean == <<limit, file, data, outVars, ogleVars, paths, choice, goodRows>>

\* lines 71-84: one iteration over lcs, whose next element is read here
CleanLc ==
    /\ fn = "cleanDataset" /\ pc = "loop" /\ i < nLcs
    /\ \E c \in LcInputs : \E keep \in SUBSET (1..Len(c.times)) :
         LET r == preprocessLc(c.times, c.mags, c.errs, remove, keep) IN
         /\ lcArg' = c
         /\ lc' = r.lc
         /\ issue' = r.issue
         /\ noiseOut' = r.noise
         /\ IF r.lc # None
            THEN /\ cleaned' = Append(cleaned, <<c.label>> \o r.lc)
                 /\ i' = i + 1
                 /\ UNCHANGED <<shortIssueCount, bogusIssueCount, outlierIssueCount,
                                pc, result>>
            ELSE IF r.issue = INSUFFICIENT_DATA_REASON
            THEN /\ shortIssueCount' = shortIssueCount + 1
                 /\ i' = i + 1
                 /\ UNCHANGED <<cleaned, bogusIssueCount, outlierIssueCount, pc, result>>
            ELSE IF r.issue = BOGUS_DATA_REASON
            THEN /\ bogusIssueCount' = bogusIssueCount + 1
                 /\ i' = i + 1
                 /\ UNCHANGED <<cleaned, shortIssueCount, outlierIssueCount, pc, result>>
            ELSE IF r.issue = OUTLIERS_REASON
            THEN /\ outlierIssueCount' = outlierIssueCount + 1
                 /\ i' = i + 1
                 /\ UNCHANGED <<cleaned, shortIssueCount, bogusIssueCount, pc, result>>
            ELSE /\ Raise("ValueError")
                 /\ UNCHANGED <<cleaned, shortIssueCount, bogusIssueCount,
                                outlierIssueCount, i>>
    /\ UNCHANGED <<fn, nLcs, remove, notClean>>

\* lines 86-93
CleanReturn ==
    /\ fn = "cleanDataset" /\ pc = "loop" /\ i >= nLcs
    /\ Return
    /\ UNCHANGED <<fn, i, cleanVars, notClean>>

NextClean == CleanLc \/ CleanReturn

SpecClean == InitClean /\ [][NextClean]_vars

\* --------------------------------------------------------- every function
Init == InitOgle3 \/ InitLegacy \/ InitMacho \/ InitK2 \/ InitClean

Next == NextOgle3 \/ NextLegacy \/ NextMacho \/ NextK2 \/ NextClean

Spec == Init /\ [][Next]_vars

\* ================================================================== claims
\* ------------------------------------------------------ loadOgle3Dataset
IsOgle3 == fn = "loadOgle3Dataset"

\* the rows of every identity of file f are contiguous
Contiguous(f) ==
    \A a, b, c \in DOMAIN f :
        (a < b /\ b < c /\ _ogle3Uid(f[a]) = _ogle3Uid(f[c]))
            => _ogle3Uid(f[b]) = _ogle3Uid(f[a])

\* row r opens an identity group of the file (time cell r names row r)
IsGroupStart(r) ==
    /\ r \in 1..Len(file)
    /\ r = 1 \/ _ogle3Uid(file[r - 1]) # _ogle3Uid(file[r])

\* the first row of the final identity group of the file
LastGroupStart ==
    CHOOSE r \in 1..Len(file) :
        IsGroupStart(r) /\ \A q \in (r + 1)..Len(file) : ~IsGroupStart(q)

\* C1: a call on a file with contiguous identities and limit L <= U that
\* returns, returns exactly L light curves: each of the four output lists
\* has length L.
C1_ExactlyLimit ==
    (IsOgle3 /\ result = "returned" /\ Contiguous(file))
        => /\ Len(labels) = limit
           /\ Len(times) = limit
           /\ Len(magnitudes) = limit
           /\ Len(errors) = limit

\* C2: in every state of the scan the three accumulators have the same
\* length, every flushed curve has as many times as magnitudes as errors,
\* and the four output lists have the same length.
C2_EqualLengths ==
    IsOgle3 =>
        /\ Len(curTimes) = Len(curMags) /\ Len(curMags) = Len(curErrors)
        /\ Len(labels) = Len(times) /\ Len(times) = Len(magnitudes)
        /\ Len(magnitudes) = Len(errors)
        /\ \A k \in 1..Len(times) :
              k <= Len(magnitudes) /\ k <= Len(errors)
                 => /\ Len(times[k]) = Len(magnitudes[k])
                    /\ Len(magnitudes[k]) = Len(errors[k])

C2_Witness ==
    /\ IsOgle3 /\ result = "returned"
    /\ Len(times) >= 2
    /\ \E k \in 1..Len(times) : Len(times[k]) >= 2

\* C3: the output curves appear in the file order of their identity groups:
\* each output curve starts at the first row of a group, and of two output
\* curves the one with the smaller index starts at the earlier row.
C3_FileOrder ==
    IsOgle3 =>
        /\ \A k \in 1..Len(times) : times[k] # <<>> /\ IsGroupStart(times[k][1])
        /\ \A k, l \in 1..Len(times) : k < l => times[k][1] < times[l][1]

\* two curves were flushed around a group that was not selected
C3_Witness ==
    /\ IsOgle3 /\ result = "returned"
    /\ Len(times) >= 2
    /\ \E r \in 1..Len(file) : /\ times[1][1] < r /\ r < times[2][1]
                               /\ uidCol[r] \notin selectedUids

\* C10: no row of the final identity group of the file contributes to the
\* output, at any point of the scan and at return: no output curve starts at
\* or after the first row of the final group.
C10_LastGroupMissing ==
    (IsOgle3 /\ pc \in {"scan", "done"}) =>
        \A k \in 1..Len(times) : \A j \in 1..Len(times[k]) :
            times[k][j] < LastGroupStart

\* the call returned and the identity of the final group was selected
C10_Witness ==
    /\ IsOgle3 /\ result = "returned"
    /\ uidCol[Len(file)] \in selectedUids
    /\ Len(times) >= 1

\* the call is past its start and has not raised
Scanning == IsOgle3 /\ pc \in {"scan", "done"} /\ result \in {"pending", "returned"}

\* the last row of the maximal run of one identity that starts at row s
RunEnd(s) ==
    CHOOSE e \in s..Len(file) :
        /\ \A q \in s..e : _ogle3Uid(file[q]) = _ogle3Uid(file[s])
        /\ e = Len(file) \/ _ogle3Uid(file[e + 1]) # _ogle3Uid(file[s])

\* the first rows of the runs of selected identities that the scan has
\* closed: the row after the run has been scanned
ClosedSelectedRuns ==
    { s \in 1..Len(file) : /\ IsGroupStart(s)
                           /\ _ogle3Uid(file[s]) \in selectedUids
                           /\ RunEnd(s) + 1 < i }

\* C11: every closed run of a selected identity gives an output curve of its
\* own, holding the rows of that run only, and there are no other output
\* curves: an identity whose rows are not contiguous gets one truncated curve
\* per closed run instead of one curve with all its rows.
C11_CurvePerClosedRun ==
    Scanning =>
        /\ Len(times) = Cardinality(ClosedSelectedRuns)
        /\ \A s \in ClosedSelectedRuns :
              \E k \in 1..Len(times) :
                 /\ times[k] # <<>>
                 /\ times[k][1] = s
                 /\ Len(times[k]) = RunEnd(s) - s + 1

\* a call returned more curves than the limit, two of them of one identity
C11_Witness ==
    /\ IsOgle3 /\ result = "returned"
    /\ Len(times) > limit
    /\ \E k, l \in 1..Len(times) :
          /\ k # l
          /\ _ogle3Uid(file[times[k][1]]) = _ogle3Uid(file[times[l][1]])

\* the category of a row in lower case
CategoryLowerCased(r) == IF r.label \in {"RR", "rr"} THEN "rr" ELSE "cep"

\* C12: every output curve is one maximal run of one selected identity: it
\* starts at the first row of the run, holds the time, magnitude and error of
\* every row of the run in scan order and nothing else, has at least one
\* point, and is labelled with the lower-cased category of the run's rows;
\* so no row of an identity outside the Selection Set gives a point or a label.
C12_CurveIsOneSelectedRun ==
    Scanning =>
        \A k \in 1..Len(times) :
            /\ times[k] # <<>>
            /\ LET s == times[k][1]
                   n == RunEnd(s) - s + 1
               IN  /\ IsGroupStart(s)
                   /\ _ogle3Uid(file[s]) \in selectedUids
                   /\ times[k] = [j \in 1..n |-> Float(file[s + j - 1].hjd)]
                   /\ k <= Len(magnitudes)
                   /\ magnitudes[k] = [j \in 1..n |-> Float(file[s + j - 1].mag)]
                   /\ k <= Len(errors)
                   /\ errors[k] = [j \in 1..n |-> Float(file[s + j - 1].err)]
                   /\ k <= Len(labels)
                   /\ \A q \in s..RunEnd(s) : labels[k] = CategoryLowerCased(file[q])
            /\ \A j \in 1..Len(times[k]) :
                  _ogle3Uid(file[times[k][j]]) \in selectedUids

\* a call returned a curve of two points from a file whose first group was
\* not selected
C12_Witness ==
    /\ IsOgle3 /\ result = "returned"
    /\ uidCol[1] \notin selectedUids
    /\ \E k \in 1..Len(times) : Len(times[k]) >= 2

\* --------------------------------------------- limit above the population
Loaders ==
    { "loadOgle3Dataset", "legacyLoadOgle3Dataset", "loadMachoDataset", "loadK2Dataset" }

\* the population U of the call: distinct identities, files, data rows (the
\* header row excluded), rows with quality flag 0
Population ==
    CASE fn = "loadOgle3Dataset" ->
             Cardinality({ <<file[k].field, Lower(file[k].label), file[k].id, file[k].band>>
                           : k \in DOMAIN file })
      [] fn = "legacyLoadOgle3Dataset" -> Len(file)
      [] fn = "loadMachoDataset" -> Len(file) - 1
      [] fn = "loadK2Dataset" -> Cardinality({ k \in DOMAIN file : file[k][10] = "0" })
      [] OTHER -> 0

\* C4: a loader called with a limit above its population ends in an error
\* and returns no dataset.
C4_LimitAbovePopulationRaises ==
    (fn \in Loaders /\ pc = "done" /\ limit > Population) => result # "returned"

\* ------------------------------------------------------ loadMachoDataset
IsMacho == fn = "loadMachoDataset"

\* the data rows of the file that the scan retains, in scan order
RetainedRows == KeepAt(Tail(file), { c + 1 : c \in choice }, 1)

\* C5: with limit L <= U every sampled index denotes a data row (0..U-1), so
\* a call that returns has retained exactly L rows in `data`.
C5_SampleDenotesRows ==
    (IsMacho /\ pc \in {"scan", "done"} /\ result # "ValueError"
        /\ limit <= Len(file) - 1)
        => /\ \A c \in choice : c \in 0..(Len(file) - 2)
           /\ result = "returned" => Len(data) = limit

\* C6: for n retained rows, magnitudes is the n red magnitudes (column 5)
\* followed by the n blue magnitudes (column 7), errors is the n red errors
\* (column 6) followed by the n blue errors (column 8), and labels and times
\* have length 2n with element k equal to element k + n.
C6_RedThenBlue ==
    (IsMacho /\ result = "returned") =>
        LET n == Len(RetainedRows)
            cell(c) == [k \in 1..n |-> Float(RetainedRows[k][c + 1])]
        IN  /\ n = Len(data)
            /\ magnitudes = cell(5) \o cell(7)
            /\ errors = cell(6) \o cell(8)
            /\ Len(labels) = 2 * n /\ Len(times) = 2 * n
            /\ \A k \in 1..n : labels[k] = labels[k + n] /\ times[k] = times[k + n]

\* --------------------------------------------------------- loadK2Dataset
IsK2 == fn = "loadK2Dataset"

IsLegacy == fn = "legacyLoadOgle3Dataset"

\* the file name of a path: what follows its last "/"
BaseNameOf(path) ==
    LET slash == CHOOSE k \in DOMAIN path :
                    path[k] = "/" /\ \A j \in (k + 1)..Len(path) : path[j] # "/"
    IN  SubSeq(path, slash + 1, Len(path))

HyphensOf(name) == { k \in DOMAIN name : name[k] = "-" }

\* a name of at least 3 hyphen-delimited segments
HasThreeSegments(name) == Cardinality(HyphensOf(name)) >= 2

\* the text between the second hyphen of the name and its third hyphen or end
ThirdSegment(name) ==
    LET H  == HyphensOf(name)
        h1 == CHOOSE k \in H : \A j \in H : k <= j
        h2 == CHOOSE k \in H \ {h1} : \A j \in H \ {h1} : k <= j
        R  == { k \in H : k > h2 } \cup { Len(name) + 1 }
        h3 == CHOOSE k \in R : \A j \in R : k <= j
    IN  SubSeq(name, h2 + 1, h3 - 1)

LowerCased(s) == [k \in DOMAIN s |-> IF s[k] = "A" THEN "a" ELSE s[k]]

\* C8: after the first i - 1 selected files, the outputs hold one entry per
\* file whose name has at least 3 hyphen segments, in order, labelled with
\* the lower-cased third segment, and nothing for the other files; the call
\* does not fail on them and the final length assertions hold.
C8_LegacySkip ==
    (IsLegacy /\ pc \in {"scan", "done"} /\ i >= 1) =>
        LET seen == SubSeq(paths, 1, i - 1)
            kept == KeepAt(seen, { k \in 1..Len(seen) :
                                     HasThreeSegments(BaseNameOf(seen[k])) }, 1)
        IN  /\ labels = [k \in 1..Len(kept) |-> LowerCased(ThirdSegment(BaseNameOf(kept[k])))]
            /\ Len(times) = Len(kept)
            /\ Len(magnitudes) = Len(kept)
            /\ Len(errors) = Len(kept)
            /\ result \in {"pending", "returned"}
            /\ pc = "done" => result = "returned"

\* the call returned after skipping one selected file and keeping another
C8_Witness ==
    /\ IsLegacy /\ result = "returned"
    /\ Len(paths) = 2
    /\ labels = << <<"a", "b">> >>

\* ------------------------------------------- preprocessLc, cleanDataset
IsClean == fn = "cleanDataset"

\* C9: the outcome of the light curve just processed is decided by the first
\* failing check in the order length, bogus filter, outlier filter; it is
\* accepted with the filtered triple otherwise; the "Bad reason" error is
\* never raised; accepted count plus the three tallies is the number of
\* curves processed, which at return is the number of input curves.
C9_Outcome ==
    (IsClean /\ i >= 1) =>
        LET n0   == Len(lcArg.times)
            n1   == Cardinality({ k \in 1..n0 : lcArg.mags[k] \notin remove
                                                 /\ lcArg.errs[k] \notin remove })
            ran  == noiseOut # None
            n2   == IF ran THEN Len(noiseOut[1]) ELSE 0
            MIN  == SUFFICIENT_LC_DATA
        IN  /\ issue \in { None, INSUFFICIENT_DATA_REASON, BOGUS_DATA_REASON,
                           OUTLIERS_REASON }
            /\ issue = INSUFFICIENT_DATA_REASON <=> n0 < MIN
            /\ issue = BOGUS_DATA_REASON <=> (n0 >= MIN /\ n1 < MIN)
            /\ issue = OUTLIERS_REASON <=> (n0 >= MIN /\ n1 >= MIN /\ ran /\ n2 < MIN)
            /\ issue = None <=> (n0 >= MIN /\ n1 >= MIN /\ ran /\ n2 >= MIN)
            /\ issue = None => /\ lc = noiseOut
                               /\ cleaned # <<>>
                               /\ Last(cleaned) = <<lcArg.label>> \o noiseOut
            /\ issue # None => lc = None
            /\ result # "ValueError"
            /\ Len(cleaned) + shortIssueCount + bogusIssueCount + outlierIssueCount = i
            /\ pc = "done" => i = nLcs

\* a call returned with one curve accepted and one rejected for bogus data
C9_Witness ==
    /\ IsClean /\ result = "returned"
    /\ Len(cleaned) = 1 /\ bogusIssueCount = 1

=============================================================================
